---- MODULE Spec2Model ----
(***************************************************************************)
(* aresponses: the in-process mock HTTP server ResponsesMockServer of      *)
(* src/aresponses/main.py.  Text values (hosts, paths, methods, header     *)
(* names) are tuples of one-character strings so that str.lower() and the  *)
(* concatenation path + "?" + query are computed, not assumed.             *)
(***************************************************************************)
EXTENDS Integers, Sequences, FiniteSets, TLC

\* ------------------------------------------------------------------ bounds
MaxAdds == 2        \* calls of add() in one session
MaxHandlers == 2    \* request handlers that can be in flight at once

\* ------------------------------------------------------------------ text
HostExample == <<"e","x","a","m","p","l","e",".","c","o","m">>
HostExampleMixed == <<"E","x","a","m","p","l","e",".","C","o","m">>
HostOther == <<"o","t","h","e","r",".","o","r","g">>
PathPing == <<"/","p","i","n","g">>
PathPingUpper == <<"/","P","i","n","g">>
QueryNone == <<>>
QueryX1 == <<"x","=","1">>
PathPingX1 == <<"/","p","i","n","g","?","x","=","1">>
MethodGET == <<"G","E","T">>
MethodGetLower == <<"g","e","t">>
MethodPOST == <<"P","O","S","T">>
BodyPong == <<"p","o","n","g">>
HdrIsSSL == <<"A","R","e","s","p","o","n","s","e","s","I","s","S","S","L">>
HdrContentType == <<"C","o","n","t","e","n","t","-","T","y","p","e">>
HdrContentTypeLower == <<"c","o","n","t","e","n","t","-","t","y","p","e">>
HdrCustom == <<"X","-","C","u","s","t","o","m">>
HdrAccept == <<"A","c","c","e","p","t">>

\* str.lower() on one character
LowerChar(c) ==
    CASE c = "A" -> "a" [] c = "B" -> "b" [] c = "C" -> "c" [] c = "D" -> "d"
      [] c = "E" -> "e" [] c = "F" -> "f" [] c = "G" -> "g" [] c = "H" -> "h"
      [] c = "I" -> "i" [] c = "J" -> "j" [] c = "K" -> "k" [] c = "L" -> "l"
      [] c = "M" -> "m" [] c = "N" -> "n" [] c = "O" -> "o" [] c = "P" -> "p"
      [] c = "Q" -> "q" [] c = "R" -> "r" [] c = "S" -> "s" [] c = "T" -> "t"
      [] c = "U" -> "u" [] c = "V" -> "v" [] c = "W" -> "w" [] c = "X" -> "x"
      [] c = "Y" -> "y" [] c = "Z" -> "z" [] OTHER -> c

\* str.lower()
Lower(s) == [i \in DOMAIN s |-> LowerChar(s[i])]

\* ------------------------------------------------------------------ values
None == [kind |-> "None"]

\* a plain str argument, the wildcard sentinel ANY
Str(s) == [kind |-> "str", s |-> s]
ANY == [kind |-> "any"]

IsStr(v) == v.kind = "str"

\* aresponses.utils._text_matches_pattern(pattern, text)
TextMatchesPattern(pattern, text) ==
    CASE pattern.kind = "any" -> TRUE
      [] pattern.kind = "str" -> pattern.s = text
      [] pattern.kind = "matcher" -> text \in pattern.accepts
      [] OTHER -> FALSE

\* ------------------------------------------------------------------ requests
\* an inbound request: request.host, request.path, its query string,
\* request.method and request.headers (a set of <<name, value>> pairs)
Request(host, path, query, method, headers) ==
    [host |-> host, path |-> path, query |-> query, method |-> method,
     headers |-> headers]

\* request.path_qs: the path, followed by "?" and the query string if any
PathQs(req) ==
    IF req.query = <<>> THEN req.path ELSE req.path \o <<"?">> \o req.query

HeaderNames(headers) == {kv[1] : kv \in headers}

\* ------------------------------------------------------------------ responses
\* self.Response(...): aiohttp's web.Response, default status 200
Response(status, body, headers) ==
    [kind |-> "object", class |-> "Response", status |-> status, body |-> body,
     headers |-> headers]

\* self.Response(body=response) for a plain-string response
StrResponse(body) == Response(200, body, {})

\* a complete response object handed to add(), here a RawResponse
RawResponse(body) ==
    [kind |-> "object", class |-> "RawResponse", status |-> 0, body |-> body,
     headers |-> {}]

\* response producers handed to add(): fn names the function, async tells
\* whether asyncio.iscoroutinefunction(response) holds
Callable(fn, async) == [kind |-> "callable", fn |-> fn, async |-> async]

\* the functions the tests hand over: one answering 201 with the request's
\* path_qs as body, one raising, and the bound method self.passthrough
CallResult(fn, req) ==
    CASE fn = "echo" -> [type |-> "return", value |-> Response(201, PathQs(req), {})]
      [] fn = "boom" -> [type |-> "raise", error |-> [kind |-> "ProducerError"]]
      [] OTHER -> [type |-> "raise", error |-> [kind |-> "TypeError"]]

Return(v) == [type |-> "return", value |-> v]
Raise(e) == [type |-> "raise", error |-> e]

\* ------------------------------------------------------------------ state
VARIABLES
    responses,          \* self._responses: the expectation queue
    host_patterns,      \* self._host_patterns
    exception,          \* self._exception
    loop_stopped,       \* self._loop.stop() was called
    state,              \* lifecycle of the server: created, running, stopping, stopped
    resolve_host,       \* TCPConnector._resolve_host (process-wide)
    is_ssl,             \* ClientRequest.is_ssl (process-wide)
    request_init,       \* ClientRequest.__init__ (process-wide)
    old_resolver_mock,  \* self._old_resolver_mock
    old_is_ssl,         \* self._old_is_ssl
    old_init,           \* self._old_init
    reported,           \* what __aexit__ told the test framework
    handlers,           \* the _handler coroutines in flight
    adds,               \* number of add() calls so far; names each expectation
    consumed,           \* per expectation, the number of requests it was matched to
    unmatched,          \* some request ended in a No-Match Error
    last                \* the outcome of the handler that finished most recently

vars == <<responses, host_patterns, exception, loop_stopped, state, resolve_host,
          is_ssl, request_init, old_resolver_mock, old_is_ssl, old_init, reported,
          handlers, adds, consumed, unmatched, last>>

hookVars == <<resolve_host, is_ssl, request_init, old_resolver_mock, old_is_ssl, old_init>>

Handlers == 1..MaxHandlers

Idle == [pc |-> "idle", req |-> None, exp |-> None, new_is_ssl |-> "unset",
         scheme |-> "unset", headers |-> {}]

NoLast == [req |-> None, exp |-> None, outcome |-> None, forwarded |-> {},
           real |-> None]

\* ResponsesMockServer.__init__
Init ==
    /\ responses = <<>>
    /\ host_patterns = {}
    /\ exception = None
    /\ loop_stopped = FALSE
    /\ state = "created"
    /\ resolve_host = "real"
    /\ is_ssl = "real"
    /\ request_init = "real"
    /\ old_resolver_mock = "unset"
    /\ old_is_ssl = "unset"
    /\ old_init = "unset"
    /\ reported = "nothing"
    /\ handlers = [h \in Handlers |-> Idle]
    /\ adds = 0
    /\ consumed = [n \in {} |-> 0]
    /\ unmatched = FALSE
    /\ last = NoLast

\* ------------------------------------------------------------------ add
\* "if isinstance(host, str): host = host.lower()", the same for method
NormalizeHost(host) == IF IsStr(host) THEN Str(Lower(host.s)) ELSE host
NormalizeMethod(method) == IF IsStr(method) THEN Str(Lower(method.s)) ELSE method

\* the tuple appended to self._responses; id is the identity of the tuple
Expectation(id, host, path, method, response, match_querystring) ==
    [id |-> id, host |-> host, path |-> path, method |-> method,
     response |-> response, match_querystring |-> match_querystring]

\* ResponsesMockServer.add
Add(host, path, method, response, match_querystring) ==
    /\ adds < MaxAdds
    /\ adds' = adds + 1
    /\ host_patterns' = host_patterns \cup {NormalizeHost(host)}
    /\ responses' = Append(responses,
            Expectation(adds + 1, NormalizeHost(host), path, NormalizeMethod(method),
                        response, match_querystring))
    /\ consumed' = [n \in 1..(adds + 1) |-> IF n \in DOMAIN consumed THEN consumed[n] ELSE 0]
    /\ UNCHANGED <<exception, loop_stopped, state, hookVars, reported, handlers,
                   unmatched, last>>

\* ResponsesMockServer._host_matches
HostMatches(match_host) ==
    \E host_pattern \in host_patterns : TextMatchesPattern(host_pattern, Lower(match_host))

\* ------------------------------------------------------------------ resolution
\* a host test by plain equality, "host_pattern == host"
HostOkEquals(e, req) == IsStr(e.host) /\ e.host.s = req.host

\* line 89: does the host pattern match request.host
HostOk(e, req) == TextMatchesPattern(e.host, req.host)

\* a path test that ignores match_querystring
PathOkNoQs(e, req) == TextMatchesPattern(e.path, req.path)

\* lines 91-93: the path pattern against path, or against path_qs
PathOk(e, req) ==
    \/ (~e.match_querystring /\ TextMatchesPattern(e.path, req.path))
    \/ (e.match_querystring /\ TextMatchesPattern(e.path, PathQs(req)))

\* line 95: the method pattern against method.lower()
MethodOk(e, req) == TextMatchesPattern(e.method, Lower(req.method))

\* a scan whose path flag does not ask for the host to match
ScanPathAlone(q, req, i, host_matched, path_matched) ==
    LET full == {k \in DOMAIN q : k >= i /\ HostOk(q[k], req) /\ PathOk(q[k], req)
                                  /\ MethodOk(q[k], req)}
    IN  IF full = {}
        THEN [found |-> FALSE, i |-> Len(q) + 1,
              host_matched |-> host_matched \/ \E k \in DOMAIN q : HostOk(q[k], req),
              path_matched |-> path_matched \/ \E k \in DOMAIN q : PathOk(q[k], req)]
        ELSE [found |-> TRUE, i |-> CHOOSE k \in full : \A l \in full : k <= l,
              host_matched |-> TRUE, path_matched |-> TRUE]

\* a scan that keeps going and settles on the last full match
ScanLast(q, req, i, host_matched, path_matched) ==
    LET full == {k \in DOMAIN q : k >= i /\ HostOk(q[k], req) /\ PathOk(q[k], req)
                                  /\ MethodOk(q[k], req)}
    IN  IF full = {}
        THEN [found |-> FALSE, i |-> Len(q) + 1,
              host_matched |-> host_matched \/ \E k \in DOMAIN q : HostOk(q[k], req),
              path_matched |-> path_matched
                    \/ \E k \in DOMAIN q : HostOk(q[k], req) /\ PathOk(q[k], req)]
        ELSE [found |-> TRUE, i |-> CHOOSE k \in full : \A l \in full : l <= k,
              host_matched |-> TRUE, path_matched |-> TRUE]

\* the loop of _find_response from position i on, with the flags so far:
\* stops at the first entry matching host, path and method
RECURSIVE Scan(_, _, _, _, _)
Scan(q, req, i, host_matched, path_matched) ==
    IF i > Len(q)
    THEN [found |-> FALSE, i |-> i, host_matched |-> host_matched,
          path_matched |-> path_matched]
    ELSE LET h == HostOk(q[i], req)
             p == h /\ PathOk(q[i], req)
             m == p /\ MethodOk(q[i], req)
         IN  IF m
             THEN [found |-> TRUE, i |-> i, host_matched |-> TRUE, path_matched |-> TRUE]
             ELSE Scan(q, req, i + 1, host_matched \/ h, path_matched \/ p)

\* a deletion that drops the last entry whatever the position
DelLast(q, i) == [j \in 1..(Len(q) - 1) |-> q[j]]

\* a deletion one position too far
DelAfter(q, i) ==
    LET d == IF i < Len(q) THEN i + 1 ELSE i
    IN  [j \in 1..(Len(q) - 1) |-> IF j < d THEN q[j] ELSE q[j + 1]]

\* a deletion that was forgotten
DelNone(q, i) == q

\* "del self._responses[i]" (positions count from 1 here)
DelAt(q, i) == [j \in 1..(Len(q) - 1) |-> IF j < i THEN q[j] ELSE q[j + 1]]

\* a message whose host flag is taken from the set of registered host patterns
NoMatchFromPatterns(req, host_matched, path_matched) ==
    [kind |-> "NoMatch", host |-> req.host, path |-> req.path, method |-> req.method,
     host_matched |-> HostMatches(req.host), path_matched |-> path_matched]

\* line 108: the No-Match Error and what its message says
NoMatch(req, host_matched, path_matched) ==
    [kind |-> "NoMatch", host |-> req.host, path |-> req.path, method |-> req.method,
     host_matched |-> host_matched, path_matched |-> path_matched]

\* lines 120-122 of passthrough: the scheme read from the side-channel header
\* and the headers forwarded to the real destination
HeaderValue(headers, name) == (CHOOSE kv \in headers : kv[1] = name)[2]
SchemeOf(req) == IF HeaderValue(req.headers, HdrIsSSL) # <<>> THEN "https" ELSE "http"
ForwardAll(headers) == headers
ForwardHeaders(headers) == {kv \in headers : kv[1] # HdrIsSSL}

\* line 126: the headers of the real response that are relayed
passthrough_headers == {HdrContentTypeLower}
RelayHeaders(headers) == {kv \in headers : Lower(kv[1]) \in passthrough_headers}

\* a resolution that hands a plain string back as it is
ProduceRaw(response, req) ==
    CASE response.kind = "callable" -> CallResult(response.fn, req)
      [] OTHER -> Return(response)

\* lines 98-106 without suspension: a synchronous callable is called with the
\* request, a plain string becomes self.Response(body=response), anything else
\* is returned as it is
Produce(response, req) ==
    CASE response.kind = "callable" -> CallResult(response.fn, req)
      [] response.kind = "str" -> Return(StrResponse(response.s))
      [] OTHER -> Return(response)

\* a loop that deletes an entry as soon as host and path match, before the
\* method is looked at
RemainingPathDel(q, req, scan) ==
    IF scan.found
    THEN DelAt(q, scan.i)
    ELSE LET hit == {k \in DOMAIN q : HostOk(q[k], req) /\ PathOk(q[k], req)}
         IN  IF hit = {} THEN q ELSE DelAt(q, CHOOSE k \in hit : \A l \in hit : k <= l)

\* self._responses after the loop of lines 88-107: the entry at the position
\* the scan stopped at is deleted (line 96), nothing else is touched
Remaining(q, req, scan) == IF scan.found THEN DelAt(q, scan.i) ELSE q

\* a slot that keeps the first error it was given
StoreFirst(stored, error) == IF stored = None THEN error ELSE stored

\* line 108: "self._exception = Exception(...)"
StoreException(stored, error) == error

Finished(req, e, outcome, forwarded, real) ==
    [req |-> req, exp |-> e, outcome |-> outcome, forwarded |-> forwarded, real |-> real]

\* ResponsesMockServer._handler / _find_response, up to its return, its raise
\* or its first suspension (the await of an asynchronous producer; for
\* self.passthrough that is inside the real call, lines 114-125)
FindResponse(h, req) ==
    /\ state \in {"running", "stopping"}
    /\ handlers[h].pc = "idle"
    /\ LET scan == Scan(responses, req, 1, FALSE, FALSE)
           e == responses[scan.i]
           r == e.response
       IN  IF ~scan.found
           THEN /\ exception' = StoreException(exception,
                                   NoMatch(req, scan.host_matched, scan.path_matched))
                /\ loop_stopped' = TRUE
                /\ unmatched' = TRUE
                /\ last' = Finished(req, None, Raise(exception'), {}, None)
                /\ responses' = Remaining(responses, req, scan)
                /\ UNCHANGED <<consumed, handlers, is_ssl>>
           ELSE /\ responses' = Remaining(responses, req, scan)
                /\ consumed' = [consumed EXCEPT ![e.id] = @ + 1]
                /\ UNCHANGED <<exception, loop_stopped, unmatched>>
                /\ CASE r.kind = "callable" /\ r.async /\ r.fn = "passthrough" ->
                          IF HdrIsSSL \in HeaderNames(req.headers)
                          THEN /\ handlers' = [handlers EXCEPT ![h] =
                                     [pc |-> "passthrough", req |-> req, exp |-> e,
                                      new_is_ssl |-> is_ssl, scheme |-> SchemeOf(req),
                                      headers |-> ForwardHeaders(req.headers)]]
                               /\ is_ssl' = old_is_ssl
                               /\ UNCHANGED last
                          ELSE /\ last' = Finished(req, e, Raise([kind |-> "KeyError"]),
                                                   {}, None)
                               /\ UNCHANGED <<handlers, is_ssl>>
                    [] r.kind = "callable" /\ r.async /\ r.fn # "passthrough" ->
                          /\ handlers' = [handlers EXCEPT ![h] =
                                [Idle EXCEPT !.pc = "awaiting", !.req = req, !.exp = e]]
                          /\ UNCHANGED <<last, is_ssl>>
                    [] OTHER ->
                          /\ last' = Finished(req, e, Produce(r, req), {}, None)
                          /\ UNCHANGED <<handlers, is_ssl>>
    /\ UNCHANGED <<host_patterns, state, resolve_host, request_init, old_resolver_mock,
                   old_is_ssl, old_init, reported, adds>>

\* line 100: the awaited asynchronous producer finishes
AwaitDone(h) ==
    /\ handlers[h].pc = "awaiting"
    /\ last' = Finished(handlers[h].req, handlers[h].exp,
                        CallResult(handlers[h].exp.response.fn, handlers[h].req), {}, None)
    /\ handlers' = [handlers EXCEPT ![h] = Idle]
    /\ UNCHANGED <<responses, host_patterns, exception, loop_stopped, state, hookVars,
                   reported, adds, consumed, unmatched>>

\* a cancellation that hands the expectation back to the head of the queue
AwaitCancelledRequeue(h) ==
    /\ handlers[h].pc = "awaiting"
    /\ responses' = <<handlers[h].exp>> \o responses
    /\ last' = Finished(handlers[h].req, handlers[h].exp,
                        Raise([kind |-> "CancelledError"]), {}, None)
    /\ handlers' = [handlers EXCEPT ![h] = Idle]
    /\ UNCHANGED <<host_patterns, exception, loop_stopped, state, hookVars,
                   reported, adds, consumed, unmatched>>

\* line 100: the request is cancelled while the producer is awaited
AwaitCancelled(h) ==
    /\ handlers[h].pc = "awaiting"
    /\ last' = Finished(handlers[h].req, handlers[h].exp,
                        Raise([kind |-> "CancelledError"]), {}, None)
    /\ handlers' = [handlers EXCEPT ![h] = Idle]
    /\ UNCHANGED <<responses, host_patterns, exception, loop_stopped, state, hookVars,
                   reported, adds, consumed, unmatched>>

\* passthrough, lines 126-131: the real response arrived and is relayed
PassthroughReturn(h, real) ==
    /\ handlers[h].pc = "passthrough"
    /\ is_ssl' = handlers[h].new_is_ssl
    /\ last' = Finished(handlers[h].req, handlers[h].exp,
                        Return(Response(real.status, real.body, RelayHeaders(real.headers))),
                        handlers[h].headers, real)
    /\ handlers' = [handlers EXCEPT ![h] = Idle]
    /\ UNCHANGED <<responses, host_patterns, exception, loop_stopped, state, resolve_host,
                   request_init, old_resolver_mock, old_is_ssl, old_init, reported, adds,
                   consumed, unmatched>>

\* a failure path that skips the finally clause
PassthroughRaiseNoFinally(h) ==
    /\ handlers[h].pc = "passthrough"
    /\ last' = Finished(handlers[h].req, handlers[h].exp,
                        Raise([kind |-> "TransportError"]), handlers[h].headers, None)
    /\ handlers' = [handlers EXCEPT ![h] = Idle]
    /\ UNCHANGED <<responses, host_patterns, exception, loop_stopped, state, hookVars,
                   reported, adds, consumed, unmatched>>

\* passthrough, lines 130-131: the real call failed (or was cancelled)
PassthroughRaise(h) ==
    /\ handlers[h].pc = "passthrough"
    /\ is_ssl' = handlers[h].new_is_ssl
    /\ last' = Finished(handlers[h].req, handlers[h].exp,
                        Raise([kind |-> "TransportError"]), handlers[h].headers, None)
    /\ handlers' = [handlers EXCEPT ![h] = Idle]
    /\ UNCHANGED <<responses, host_patterns, exception, loop_stopped, state, resolve_host,
                   request_init, old_resolver_mock, old_is_ssl, old_init, reported, adds,
                   consumed, unmatched>>

\* ------------------------------------------------------------------ lifecycle
\* ResponsesMockServer.__aenter__
Aenter ==
    /\ state = "created"
    /\ state' = "running"
    /\ old_resolver_mock' = resolve_host
    /\ resolve_host' = "mock"
    /\ old_is_ssl' = is_ssl
    /\ is_ssl' = "mock"
    /\ old_init' = request_init
    /\ request_init' = "mock"
    /\ UNCHANGED <<responses, host_patterns, exception, loop_stopped, reported, handlers,
                   adds, consumed, unmatched, last>>

\* an exit that reports the stored exception first and so leaves the rest undone
AexitFailFirst ==
    /\ state = "running"
    /\ IF exception # None
       THEN /\ state' = "stopped"
            /\ reported' = "failed"
            /\ UNCHANGED <<resolve_host, is_ssl>>
       ELSE /\ state' = "stopping"
            /\ resolve_host' = old_resolver_mock
            /\ is_ssl' = old_is_ssl
            /\ UNCHANGED reported
    /\ UNCHANGED <<responses, host_patterns, exception, loop_stopped, request_init,
                   old_resolver_mock, old_is_ssl, old_init, handlers, adds,
                   consumed, unmatched, last>>

\* ResponsesMockServer.__aexit__, lines 164-165, up to "await self.close()"
AexitRestore ==
    /\ state = "running"
    /\ state' = "stopping"
    /\ resolve_host' = old_resolver_mock
    /\ is_ssl' = old_is_ssl
    /\ UNCHANGED <<responses, host_patterns, exception, loop_stopped, request_init,
                   old_resolver_mock, old_is_ssl, old_init, reported, handlers, adds,
                   consumed, unmatched, last>>

\* a teardown that fails the session over any request that raised
AexitCloseAnyError ==
    /\ state = "stopping"
    /\ \A h \in Handlers : handlers[h].pc = "idle"
    /\ state' = "stopped"
    /\ reported' = IF exception # None \/ (last.outcome # None /\ last.outcome.type = "raise")
                   THEN "failed" ELSE "passed"
    /\ UNCHANGED <<responses, host_patterns, exception, loop_stopped, hookVars, handlers,
                   adds, consumed, unmatched, last>>

\* a teardown that also fails the session over expectations left in the queue
AexitCloseStrict ==
    /\ state = "stopping"
    /\ \A h \in Handlers : handlers[h].pc = "idle"
    /\ state' = "stopped"
    /\ reported' = IF exception # None \/ responses # <<>> THEN "failed" ELSE "passed"
    /\ UNCHANGED <<responses, host_patterns, exception, loop_stopped, hookVars, handlers,
                   adds, consumed, unmatched, last>>

\* ResponsesMockServer.__aexit__, lines 167-170: the endpoint is closed (every
\* handler gone by then), then the stored exception is reported
AexitClose ==
    /\ state = "stopping"
    /\ \A h \in Handlers : handlers[h].pc = "idle"
    /\ state' = "stopped"
    /\ reported' = IF exception # None THEN "failed" ELSE "passed"
    /\ UNCHANGED <<responses, host_patterns, exception, loop_stopped, hookVars, handlers,
                   adds, consumed, unmatched, last>>

\* ------------------------------------------------------------------ inputs
\* what the real destination of a passthrough call answers
RealResponses ==
    { [status |-> 200, body |-> BodyPong,
       headers |-> {<<HdrContentType, <<"t">>>>, <<HdrCustom, <<"1">>>>}],
      [status |-> 404, body |-> <<>>,
       headers |-> {<<HdrContentTypeLower, <<"t">>>>, <<HdrIsSSL, <<"1">>>>}],
      [status |-> 200, body |-> <<>>, headers |-> {<<HdrCustom, <<"1">>>>}] }

\* headers of inbound requests: stamped by the wrapped ClientRequest.__init__
\* (https, http), or built without it
HeaderSets ==
    { {<<HdrIsSSL, <<"1">>>>, <<HdrAccept, <<"*">>>>},
      {<<HdrIsSSL, <<>>>>},
      {<<HdrAccept, <<"*">>>>} }

\* the session of the fixture: every kind of response producer
AddResponses ==
    { Str(BodyPong), RawResponse(BodyPong), Callable("echo", FALSE),
      Callable("echo", TRUE), Callable("boom", FALSE), Callable("passthrough", TRUE) }

Requests ==
    { Request(HostExample, PathPing, QueryNone, MethodGET,
              {<<HdrIsSSL, <<"1">>>>, <<HdrAccept, <<"*">>>>}),
      Request(HostExample, PathPing, QueryNone, MethodPOST, {<<HdrIsSSL, <<>>>>}),
      Request(HostExample, PathPing, QueryNone, MethodGET, {<<HdrAccept, <<"*">>>>}),
      Request(HostOther, PathPing, QueryNone, MethodGET, {<<HdrIsSSL, <<>>>>}) }

\* ResponsesMockServer._handler: a new request gets the first free handler
Handler(h, req) ==
    /\ \A g \in 1..(h - 1) : handlers[g].pc # "idle"
    /\ FindResponse(h, req)

Next ==
    \/ \E response \in AddResponses, method \in {Str(MethodGET), ANY} :
           Add(Str(HostExample), Str(PathPing), method, response, FALSE)
    \/ \E h \in Handlers, req \in Requests : Handler(h, req)
    \/ \E h \in Handlers : AwaitDone(h)
    \/ \E h \in Handlers : AwaitCancelled(h)
    \/ \E h \in Handlers, real \in RealResponses : PassthroughReturn(h, real)
    \/ \E h \in Handlers : PassthroughRaise(h)
    \/ Aenter
    \/ AexitRestore
    \/ AexitClose

Spec == Init /\ [][Next]_vars

\* sessions whose passthrough calls do not overlap: a request that starts one
\* is only handled while no other is in flight
HandlerSeq(h, req) ==
    /\ Handler(h, req)
    /\ Cardinality({g \in Handlers : handlers'[g].pc = "passthrough"}) <= 1

NextSeq ==
    \/ \E response \in AddResponses, method \in {Str(MethodGET), ANY} :
           Add(Str(HostExample), Str(PathPing), method, response, FALSE)
    \/ \E h \in Handlers, req \in Requests : HandlerSeq(h, req)
    \/ \E h \in Handlers : AwaitDone(h)
    \/ \E h \in Handlers : AwaitCancelled(h)
    \/ \E h \in Handlers, real \in RealResponses : PassthroughReturn(h, real)
    \/ \E h \in Handlers : PassthroughRaise(h)
    \/ Aenter
    \/ AexitRestore
    \/ AexitClose

SpecSeq == Init /\ [][NextSeq]_vars

\* the matcher: the shapes of host, path and method pattern (no wildcard, one
\* wildcard, all wildcards; match_querystring with plain patterns), plain-string
\* responses only
MatchAdds ==
    { a \in [host : {Str(HostExampleMixed), ANY},
             path : {Str(PathPing), Str(PathPingX1), ANY},
             method : {Str(MethodGET), ANY},
             match_querystring : BOOLEAN] :
        LET wild == Cardinality({f \in {"host", "path", "method"} : a[f] = ANY})
        IN  /\ wild \in {0, 3} \/ (wild = 1 /\ a.path # Str(PathPingX1))
            /\ a.match_querystring => wild = 0 }

MatchRequests ==
    { Request(host, PathPing, query, method, {<<HdrIsSSL, <<>>>>}) :
        host \in {HostExample, HostExampleMixed, HostOther},
        query \in {QueryNone, QueryX1}, method \in {MethodGET, MethodPOST} }
    \cup { Request(HostExample, PathPingUpper, QueryNone, MethodGET, {<<HdrIsSSL, <<>>>>}) }

NextMatch ==
    \/ \E a \in MatchAdds :
           Add(a.host, a.path, a.method, Str(BodyPong), a.match_querystring)
    \/ \E req \in MatchRequests : Handler(1, req)
    \/ Aenter

SpecMatch == Init /\ [][NextMatch]_vars

\* ------------------------------------------------------------------ properties
Range(q) == {q[i] : i \in DOMAIN q}
AllRequests == Requests \cup MatchRequests

\* the request matches host, path and method of the expectation
FullMatch(e, req) == HostOk(e, req) /\ PathOk(e, req) /\ MethodOk(e, req)

\* the expectation a step of handler h resolved the request against
ResolvedBy(h) == IF handlers'[h].pc # "idle" THEN handlers'[h].exp ELSE last'.exp

IsReturn(outcome) == outcome # None /\ outcome.type = "return"
IsRaise(outcome, kind) ==
    outcome # None /\ outcome.type = "raise" /\ outcome.error.kind = kind
IsNoMatch(outcome) == IsRaise(outcome, "NoMatch")

\* C1: first-match-wins.  When a request fully matches two queued expectations
\* E1 and E2, E1 registered before E2 and nothing before E1 matching, the step
\* resolves the request against E1, removes E1 and leaves E2 in the queue.
C1_FirstMatchWins ==
    [][\A h \in Handlers, req \in AllRequests :
         FindResponse(h, req) =>
           \A i, j \in DOMAIN responses :
             (/\ i < j
              /\ FullMatch(responses[i], req)
              /\ FullMatch(responses[j], req)
              /\ \A k \in 1..(i - 1) : ~FullMatch(responses[k], req))
             => /\ ResolvedBy(h) = responses[i]
                /\ responses[i] \notin Range(responses')
                /\ responses[j] \in Range(responses')
                /\ Len(responses') = Len(responses) - 1]_vars

\* a request was resolved against E1 while a later E2 matching it stays queued
C1_Witness ==
    /\ last.exp # None
    /\ IsReturn(last.outcome)
    /\ \E e \in Range(responses) : e.id > last.exp.id /\ FullMatch(e, last.req)

\* C2: one-shot consumption.  No expectation is ever matched to more than one
\* request; and when exactly one expectation was registered and the request
\* that finished last was served by it, the same request issued again ends in
\* a No-Match Error.
C2_OneShot ==
    /\ [](\A n \in DOMAIN consumed : consumed[n] <= 1)
    /\ [][\A h \in Handlers, req \in AllRequests :
            (/\ adds = 1
             /\ last.req = req
             /\ last.exp # None
             /\ IsReturn(last.outcome)
             /\ FindResponse(h, req))
            => /\ IsNoMatch(last'.outcome)
               /\ last'.req = req
               /\ consumed' = consumed]_vars

\* the only expectation served one request and the next request found nothing
C2_Witness ==
    /\ adds = 1
    /\ consumed[1] = 1
    /\ responses = <<>>
    /\ IsNoMatch(last.outcome)

\* the scenario of C3: add("example.com", "/ping", "GET", "pong") is the only
\* registration and GET http://example.com/ping was just answered "pong", 200
PingExpectation == Expectation(1, Str(HostExample), Str(PathPing), Str(MethodGetLower),
                               Str(BodyPong), FALSE)
IsPing(req) == req.host = HostExample /\ req.path = PathPing /\ req.query = QueryNone
               /\ req.method = MethodGET
PingAnswered ==
    /\ adds = 1
    /\ last.exp = PingExpectation
    /\ IsPing(last.req)
    /\ last.outcome = Return([kind |-> "object", class |-> "Response", status |-> 200,
                              body |-> BodyPong, headers |-> {}])

\* C3 as stated: the second GET http://example.com/ping records a No-Match
\* Error whose flags are host_matched=True and path_matched=True.
C3_Original ==
    [][\A h \in Handlers, req \in AllRequests :
         (PingAnswered /\ IsPing(req) /\ FindResponse(h, req))
         => /\ IsNoMatch(last'.outcome)
            /\ exception' = last'.outcome.error
            /\ exception'.host_matched = TRUE
            /\ exception'.path_matched = TRUE]_vars

\* C3 amended: the second GET http://example.com/ping records a No-Match Error
\* whose flags are host_matched=False and path_matched=False, the flags being
\* computed over the expectations still queued.
C3_SecondPing ==
    [][\A h \in Handlers, req \in AllRequests :
         (PingAnswered /\ IsPing(req) /\ FindResponse(h, req))
         => /\ IsNoMatch(last'.outcome)
            /\ exception' = last'.outcome.error
            /\ exception'.host_matched = FALSE
            /\ exception'.path_matched = FALSE]_vars

\* the second ping was refused after the first consumed the only expectation
C3_Witness ==
    /\ adds = 1
    /\ consumed[1] = 1
    /\ host_patterns = {Str(HostExample)}
    /\ IsNoMatch(last.outcome)
    /\ IsPing(last.req)
    /\ exception = last.outcome.error

\* C4: at teardown the session is reported as failed if and only if some
\* request of the session ended in a No-Match Error, whatever happened to
\* later requests and whatever is left in the queue.
C4_FailedIffUnmatched ==
    state = "stopped" => (reported = "failed" <=> unmatched)

\* failed at teardown although the request that finished last was answered
C4_Witness ==
    /\ state = "stopped"
    /\ reported = "failed"
    /\ IsReturn(last.outcome)

\* C5: after stop the three process-wide hooks are the ones from before the
\* session: name resolution, TLS detection and request construction.
C5_HooksRestored ==
    state = "stopped" =>
        /\ resolve_host = "real"
        /\ is_ssl = "real"
        /\ request_init = "real"

InPassthrough == {h \in Handlers : handlers[h].pc = "passthrough"}

\* C6: while a session is running and its passthrough calls do not overlap,
\* the TLS-detection hook is the real one exactly while a passthrough call is
\* in flight and the forced-off mock one otherwise, so also after a call that
\* returned and after a call that raised.
C6_HookScopedToCall ==
    state = "running" =>
        IF InPassthrough # {} THEN is_ssl = "real" ELSE is_ssl = "mock"

\* a passthrough call failed and the running session has the mock hook again
C6_Witness ==
    /\ state = "running"
    /\ InPassthrough = {}
    /\ IsRaise(last.outcome, "TransportError")
    /\ is_ssl = "mock"

\* the matching rule C7 states: host and method compared in lower case on
\* both sides, the path as it is
ClaimedMatch(e, req) ==
    /\ e.host = ANY \/ (IsStr(e.host) /\ e.host.s = Lower(req.host))
    /\ PathOk(e, req)
    /\ e.method = ANY \/ (IsStr(e.method) /\ e.method.s = Lower(req.method))

\* C7: a request is served exactly when some queued expectation matches it
\* with host and method compared case-insensitively and the path compared
\* case-sensitively.
C7_CaseRules ==
    [][\A h \in Handlers, req \in AllRequests :
         FindResponse(h, req) =>
           ((\E e \in Range(responses) : ClaimedMatch(e, req))
             <=> Len(responses') = Len(responses) - 1)]_vars

\* C8: with match_querystring=False the path pattern is compared with the
\* request path alone, with match_querystring=True with path + "?" + query:
\* pattern /ping serves /ping?x=1 only when match_querystring is False, and
\* pattern /ping?x=1 serves it only when match_querystring is True.
C8_QueryString ==
    [][\A h \in Handlers, req \in AllRequests :
         FindResponse(h, req) =>
           \A i \in DOMAIN responses :
             LET e == responses[i]
                 expected ==
                    IF e.match_querystring
                    THEN \/ (req.query = QueryNone /\ e.path.s = req.path)
                         \/ (req.query = QueryX1 /\ req.path = PathPing
                             /\ e.path.s = PathPingX1)
                    ELSE e.path.s = req.path
             IN  (/\ IsStr(e.path)
                  /\ HostOk(e, req)
                  /\ MethodOk(e, req)
                  /\ \A k \in 1..(i - 1) : ~FullMatch(responses[k], req))
                 => (ResolvedBy(h) = e <=> expected)]_vars

\* /ping?x=1 was served by a match_querystring=True pattern /ping?x=1
C8_Witness ==
    /\ IsReturn(last.outcome)
    /\ last.req.query = QueryX1
    /\ last.exp.match_querystring
    /\ last.exp.path = Str(PathPingX1)

\* C9: on a full match a plain-string response yields a status-200 Response
\* with that body, a callable yields exactly what it returns (or raises) for
\* the request, awaited when asynchronous, and any other value is returned as
\* it is.
C9_ProducerResolution ==
    (last.exp # None /\ ~IsRaise(last.outcome, "CancelledError")) =>
        LET r == last.exp.response
        IN  CASE r.kind = "str" ->
                   last.outcome = Return([kind |-> "object", class |-> "Response",
                                          status |-> 200, body |-> r.s, headers |-> {}])
              [] r.kind = "callable" /\ r.fn # "passthrough" ->
                   last.outcome = CallResult(r.fn, last.req)
              [] r.kind = "callable" /\ r.fn = "passthrough" -> TRUE
              [] OTHER -> last.outcome = Return(r)

\* an asynchronous callable was awaited and its result returned
C9_Witness ==
    /\ last.exp # None
    /\ last.exp.response = Callable("echo", TRUE)
    /\ IsReturn(last.outcome)
    /\ last.outcome.value.status = 201

\* C10: the headers forwarded by a passthrough call never contain the
\* side-channel header AResponsesIsSSL, and every header of the relayed
\* response is a header of the real response named content-type in some case.
C10_HeaderFiltering ==
    /\ \A h \in InPassthrough : HdrIsSSL \notin HeaderNames(handlers[h].headers)
    /\ HdrIsSSL \notin HeaderNames(last.forwarded)
    /\ last.real # None =>
          \A kv \in last.outcome.value.headers :
             /\ kv \in last.real.headers
             /\ Lower(kv[1]) = HdrContentTypeLower
             /\ kv[1] \notin {HdrIsSSL, HdrCustom}

\* a request stamped with the side-channel header was passed through and the
\* real response carried a custom header next to its content type
C10_Witness ==
    /\ last.real # None
    /\ HdrIsSSL \in HeaderNames(last.req.headers)
    /\ last.forwarded # {}
    /\ HdrCustom \in HeaderNames(last.real.headers)
    /\ last.outcome.value.headers # {}

\* the fields of the expectation that are not ANY match the request
NonWildOk(e, req) ==
    /\ e.host = ANY \/ HostOk(e, req)
    /\ e.path = ANY \/ PathOk(e, req)
    /\ e.method = ANY \/ MethodOk(e, req)

\* C11: a field registered as ANY matches every value of that field: the
\* first queued expectation whose other fields match the request serves it,
\* so an expectation with ANY for host, path and method serves any request.
C11_Wildcard ==
    [][\A h \in Handlers, req \in AllRequests :
         FindResponse(h, req) =>
           \A i \in DOMAIN responses :
             (/\ NonWildOk(responses[i], req)
              /\ \A k \in 1..(i - 1) : ~NonWildOk(responses[k], req))
             => /\ ResolvedBy(h) = responses[i]
                /\ responses[i] \notin Range(responses')]_vars

\* add(ANY, ANY, ANY, ...) served a POST to a host nothing else names
C11_Witness ==
    /\ IsReturn(last.outcome)
    /\ last.exp.host = ANY
    /\ last.exp.path = ANY
    /\ last.exp.method = ANY
    /\ last.req.host = HostOther
    /\ last.req.method = MethodPOST
    /\ last.req.query = QueryX1

\* C12: a request that ends in a No-Match Error leaves the expectation queue
\* as it was, same entries in the same order, also when entries matched its
\* host only or its host and path but not its method.
C12_NoMatchKeepsQueue ==
    [][\A h \in Handlers, req \in AllRequests :
         (/\ FindResponse(h, req)
          /\ handlers' = handlers
          /\ last'.req = req
          /\ IsNoMatch(last'.outcome))
         => /\ responses' = responses
            /\ consumed' = consumed]_vars

\* a request was refused although a queued expectation matches its host and
\* path, and that expectation is still queued
C12_Witness ==
    /\ IsNoMatch(last.outcome)
    /\ last.outcome.error.path_matched
    /\ \E e \in Range(responses) : HostOk(e, last.req) /\ PathOk(e, last.req)
    /\ \A n \in DOMAIN consumed : consumed[n] = 0
    /\ Len(responses) = adds

InFlight == {h \in Handlers : handlers[h].pc # "idle"}
QueuedIds == {responses[i].id : i \in DOMAIN responses}

\* C15: the matched expectation leaves the queue before its producer runs:
\* while a producer is awaited, and after it raised or the request was
\* cancelled, the expectation is not in the queue and was matched only once.
C15_ConsumeBeforeProduce ==
    /\ [](\A h \in InFlight :
            /\ handlers[h].exp.id \notin QueuedIds
            /\ consumed[handlers[h].exp.id] = 1)
    /\ [](last.exp # None =>
            /\ last.exp.id \notin QueuedIds
            /\ consumed[last.exp.id] = 1)
    /\ [][\A h \in Handlers :
            (handlers[h].pc = "awaiting" /\ handlers'[h].pc = "idle")
            => responses' = responses]_vars

\* a request was cancelled at the await and its expectation is gone
C15_Witness ==
    /\ IsRaise(last.outcome, "CancelledError")
    /\ last.exp.id \notin QueuedIds
    /\ consumed[last.exp.id] = 1

\* C16: requests handled concurrently never hold the same expectation, and
\* what a suspended handler holds is no longer in the queue for others.
C16_NoSharedExpectation ==
    \A h, g \in InFlight :
        /\ h # g => handlers[h].exp.id # handlers[g].exp.id
        /\ handlers[h].exp \notin Range(responses)

\* two requests are suspended at once, one in a producer, one in passthrough
C16_Witness ==
    /\ handlers[1].pc = "awaiting"
    /\ handlers[2].pc = "passthrough"

\* C17: an error raised by a response producer reaches the caller as it is
\* and leaves the session exception slot alone; a session in which no request
\* went unmatched is reported as passed, whatever its producers raised.
C17_ProducerErrorLocal ==
    /\ [][\A h \in Handlers, req \in AllRequests :
            (/\ FindResponse(h, req)
             /\ \E i \in DOMAIN responses :
                  /\ FullMatch(responses[i], req)
                  /\ \A k \in 1..(i - 1) : ~FullMatch(responses[k], req)
                  /\ responses[i].response = Callable("boom", FALSE))
            => /\ last'.outcome = Raise([kind |-> "ProducerError"])
               /\ last'.req = req
               /\ exception' = exception
               /\ unmatched' = unmatched
               /\ loop_stopped' = loop_stopped]_vars
    /\ []((state = "stopped" /\ ~unmatched) => (exception = None /\ reported = "passed"))

\* the session ended right after a producer raised and was reported as passed
C17_Witness ==
    /\ state = "stopped"
    /\ reported = "passed"
    /\ IsRaise(last.outcome, "ProducerError")

\* C18: in a No-Match Error host_matched tells whether some expectation queued
\* at resolution time matches the request's host, and path_matched whether
\* some queued expectation matches its host and its path.
C18_Flags ==
    [][\A h \in Handlers, req \in AllRequests :
         (FindResponse(h, req) /\ \A e \in Range(responses) : ~FullMatch(e, req))
         => /\ exception'.host_matched
                 <=> \E e \in Range(responses) : HostOk(e, req)
            /\ exception'.path_matched
                 <=> \E e \in Range(responses) : HostOk(e, req) /\ PathOk(e, req)]_vars

\* a queued expectation matches the path of the refused request but not its
\* host, and neither flag is set
C18_Witness ==
    /\ IsNoMatch(last.outcome)
    /\ ~last.outcome.error.host_matched
    /\ ~last.outcome.error.path_matched
    /\ \E e \in Range(responses) : PathOk(e, last.req) /\ ~HostOk(e, last.req)

\* C19: the failure is reported only once the server has stopped: the name
\* resolution hook is back, __aexit__ has put the saved TLS hook back, no
\* handler is left, and the report is made by the step that follows the close.
C19_FailAfterCleanup ==
    /\ [](reported = "failed" =>
            /\ state = "stopped"
            /\ resolve_host = "real"
            /\ InFlight = {})
    /\ [][reported' # reported =>
            /\ state = "stopping"
            /\ state' = "stopped"
            /\ resolve_host = old_resolver_mock
            /\ hookVars' = hookVars]_vars
    /\ [][(state = "running" /\ state' # "running") =>
            /\ state' = "stopping"
            /\ is_ssl' = old_is_ssl
            /\ resolve_host' = old_resolver_mock
            /\ reported' = "nothing"]_vars

\* a session with a recorded No-Match Error was stopped and reported failed
C19_Witness ==
    /\ state = "stopped"
    /\ reported = "failed"
    /\ exception # None
    /\ resolve_host = "real"

\* C20: whenever the session is running and no passthrough call is in flight
\* the TLS-detection hook is the forced-off mock one, also after two
\* passthrough calls that overlapped.
C20_HookMockWhenIdle ==
    (state = "running" /\ InPassthrough = {}) => is_ssl = "mock"

====
